---------------------------- MODULE Spec2Model ----------------------------
(***************************************************************************)
(* State-machine model of the RTA Builder image-build pipeline.            *)
(*                                                                         *)
(*   - RTABuilderApp (src/rta_builder_app.py): the controller.  The main   *)
(*     (Tk) thread runs start_build, stop_build_process and the callbacks  *)
(*     scheduled with root.after; the build thread runs _build_thread.     *)
(*   - ISOBuilder (src/src/iso_building_utils.py): the extraction and      *)
(*     creation strategies and the cancellation flag stop_requested.       *)
(*                                                                         *)
(* The controller does not call ISOBuilder: _build_thread uses its own     *)
(* placeholder _extract_iso / _rebuild_iso and its own flag stop_build.    *)
(* The two classes are therefore modelled side by side, each with its own  *)
(* specification (SpecApp, SpecExtract, SpecCreate).                       *)
(*                                                                         *)
(* rta_builder_app.py calls time.sleep (lines 578 and 601) and does not    *)
(* import time.  time_bound = FALSE is the module as written: the first    *)
(* call raises NameError, which the handler of _build_thread reports as    *)
(* "Build failed".  time_bound = TRUE is the same module with the name     *)
(* bound, so that the stages behind the first call can be followed too.    *)
(* Init leaves the choice open; a property that depends on it says so.     *)
(***************************************************************************)
EXTENDS Integers, Sequences, FiniteSets, TLC

(***************************************************************************)
(* Bounds of the model                                                     *)
(***************************************************************************)
\* builds started on one RTABuilderApp
MaxJobs == 2
\* calls of ISOBuilder.request_stop
MaxStops == 2
\* directories that os.walk yields, and files in one directory
MaxDirs == 2
MaxFilesPerDir == 2
\* output lines of one subprocess
MaxLines == 2
\* files of one walk whose copy raises
MaxCopyErrors == 4

(***************************************************************************)
(* Program constants                                                       *)
(***************************************************************************)
\* _extract_iso: for i in range(5)
ExtractSteps == 5
\* _rebuild_iso: total_steps = 10
total_steps == 10
\* _rebuild_iso: update_progress(50 + (i * 5))
RebuildBase == 50
RebuildInc == 5
\* the progress cadence of the copy and archive loops: copied_files % 100
ProgressEvery == 100
\* convert_to_vhd / convert_to_ami: total_steps = 5
ConvertSteps == 5
\* _build_thread: the weights of the steps
steps == [extract_iso |-> 20, copy_tools |-> 10, customize |-> 10,
          rebuild_iso |-> 50, cleanup |-> 10]

VARIABLES
    \* ---- RTABuilderApp ----
    time_bound,        \* does the global name `time` resolve in rta_builder_app
    stop_build,        \* self.stop_build
    build_thread,      \* self.build_thread: "none" | "alive" | "dead"
    build_button,      \* state of the build button: "normal" | "disabled"
    stop_button,       \* state of the stop button
    after_queue,       \* callbacks scheduled with root.after, oldest first
    dialog,            \* the last message box shown by a scheduled callback
    pc,                \* position of the newest build thread
    step_i,            \* loop variable i of _extract_iso / _rebuild_iso
    completed_weight,  \* local completed_weight of _build_thread
    progress_var,      \* self.progress_var
    progress_log,      \* history: every update_progress value of this job
    outcome,           \* how _build_thread ended: "none" | "complete" | "failed"
    error,             \* the message of the exception caught at line 558
    stop_seen,         \* history: the job ended at a poll that read stop_build
    io_error,          \* history: an OS error was raised in this job
    lingering,         \* superseded build threads still inside their finally
    jobs,              \* history: builds started
    stop_clicks,       \* history: calls of stop_build_process since the last start
    stop_at_pc,        \* history: where the build thread was when stop_build was set
    stale_stop,        \* history: start_build found stop_build set by an earlier job
    \* ---- ISOBuilder ----
    stop_requested,    \* self.stop_requested
    stop_calls,        \* history: calls of request_stop
    call,              \* the public method running: "none" | "extract_iso" | "create_iso"
    ipc,               \* position inside that method
    ret,               \* its return value: "none" | "True" | "False"
    pending,           \* the return value a try block hands to its finally
    tiers,             \* history: the strategies started, in order
    seven_zip_path,    \* result of _find_7zip: "unset" | "None" | "found"
    oscdimg_path,      \* result of _find_oscdimg: "unset" | "None" | "found"
    boot_files,        \* the boot files that exist under source_dir/boot
    cmd,               \* local cmd of _create_iso_with_oscdimg
    events,            \* history: the calls of self.log (message, progress)
    proc,              \* the subprocess: "none" | "running" | "exited" | "terminated"
    lines_read,        \* lines read from the stdout of the subprocess
    cur_line,          \* the line the loop body is working on
    returncode,        \* process.returncode of each tool after wait (-1 before)
    drive_letter,      \* local drive_letter: "None" | "" | "E"
    mounted,           \* the image is attached to the host
    mounts,            \* history: Mount-DiskImage commands that succeeded
    unmounts,          \* history: Dismount-DiskImage commands issued
    tree,              \* files in each directory that os.walk yields
    dir_i,             \* index of the directory of the outer loop
    file_i,            \* index of the file of the inner loop
    total_files,       \* total_files / file_count
    copied_files,      \* copied_files / processed
    units_after_stop,  \* history: units of work done with the flag set
    stop_at,           \* history: where the method was when the flag was set
    zip_file,          \* the file at output_iso + ".zip": "absent" | "partial" | "complete"
    output_file,       \* the file at output_iso: "absent" | "old" | "image" | "archive"
    script_path,       \* local script_path of _create_iso_with_powershell
    conv_i,            \* loop variable i of convert_to_vhd / convert_to_ami
    converted_file     \* the file at vhd_path / ami_path:
                       \* "absent" | "old" | "truncated" | "written"

appVars == <<time_bound, stop_build, build_thread, build_button, stop_button,
             after_queue, dialog, pc, step_i, completed_weight, progress_var,
             progress_log, outcome, error, stop_seen, io_error, lingering, jobs,
             stop_clicks, stop_at_pc, stale_stop>>
isoVars == <<stop_requested, stop_calls, call, ipc, ret, pending, tiers,
             seven_zip_path, oscdimg_path, boot_files, cmd, events,
             proc, lines_read, cur_line, returncode, drive_letter, mounted,
             mounts, unmounts, tree, dir_i, file_i, total_files, copied_files,
             units_after_stop, stop_at, zip_file, output_file, script_path,
             conv_i, converted_file>>
vars == <<appVars, isoVars>>

(***************************************************************************)
(* RTABuilderApp                                                           *)
(***************************************************************************)
\* RTABuilderApp.__init__ (the widgets start as create_ui leaves them)
InitApp ==
    /\ time_bound \in BOOLEAN
    /\ stop_build = FALSE
    /\ build_thread = "none"
    /\ build_button = "normal"
    /\ stop_button = "disabled"
    /\ after_queue = <<>>
    /\ dialog = "none"
    /\ pc = "idle"
    /\ step_i = 0
    /\ completed_weight = 0
    /\ progress_var = 0
    /\ progress_log = <<>>
    /\ outcome = "none"
    /\ error = ""
    /\ stop_seen = FALSE
    /\ io_error = FALSE
    /\ lingering = 0
    /\ jobs = 0
    /\ stop_clicks = 0
    /\ stop_at_pc = "none"
    /\ stale_stop = FALSE

\* update_progress(value)
update_progress(value) ==
    /\ progress_var' = value
    /\ progress_log' = Append(progress_log, value)

\* raise Exception(msg) inside the try of _build_thread, and the handler of
\* lines 558-561: logger.error("Build failed: ..."), root.after(showerror)
BuildFailed(msg, by_stop, by_io) ==
    /\ error' = msg
    /\ outcome' = "failed"
    /\ stop_seen' = by_stop
    /\ io_error' = by_io
    /\ after_queue' = Append(after_queue, "showerror")
    /\ pc' = "finally1"

\* start_build without the reset of line 410: the flag stays as the
\* earlier job left it
start_build_keeps_flag ==
    /\ build_button = "normal"
    /\ jobs < MaxJobs
    /\ \E valid \in BOOLEAN :
        IF ~valid
        THEN UNCHANGED vars
        ELSE /\ build_button' = "disabled"
             /\ stop_button' = "normal"
             /\ build_thread' = "alive"
             /\ lingering' = IF pc = "idle" THEN lingering ELSE lingering + 1
             /\ pc' = "begin"
             /\ jobs' = jobs + 1
             /\ step_i' = 0
             /\ completed_weight' = 0
             /\ progress_log' = <<>>
             /\ outcome' = "none"
             /\ error' = ""
             /\ stop_seen' = FALSE
             /\ io_error' = FALSE
             /\ stop_clicks' = 0
             /\ stop_at_pc' = "none"
             /\ stale_stop' = stop_build
             /\ UNCHANGED <<time_bound, stop_build, after_queue, dialog, progress_var>>
             /\ UNCHANGED isoVars

\* start_build: the handler of the build button
start_build ==
    /\ build_button = "normal"
    /\ jobs < MaxJobs
    /\ \E valid \in BOOLEAN :
        IF ~valid
        THEN UNCHANGED vars
        ELSE /\ build_button' = "disabled"
             /\ stop_button' = "normal"
             /\ stop_build' = FALSE
             /\ build_thread' = "alive"
             /\ lingering' = IF pc = "idle" THEN lingering ELSE lingering + 1
             /\ pc' = "begin"
             /\ jobs' = jobs + 1
             /\ step_i' = 0
             /\ completed_weight' = 0
             /\ progress_log' = <<>>
             /\ outcome' = "none"
             /\ error' = ""
             /\ stop_seen' = FALSE
             /\ io_error' = FALSE
             /\ stop_clicks' = 0
             /\ stop_at_pc' = "none"
             /\ stale_stop' = stop_build
             /\ UNCHANGED <<time_bound, after_queue, dialog, progress_var>>
             /\ UNCHANGED isoVars

\* stop_build_process as a toggle: a second click takes the request back
stop_build_process_toggle ==
    /\ stop_clicks < MaxStops
    /\ stop_clicks' = stop_clicks + 1
    /\ IF build_thread = "alive"
       THEN /\ stop_build' = ~stop_build
            /\ stop_at_pc' = IF stop_build THEN stop_at_pc ELSE pc
       ELSE UNCHANGED <<stop_build, stop_at_pc>>
    /\ UNCHANGED <<time_bound, build_thread, build_button, stop_button,
                   after_queue, dialog, pc, step_i, completed_weight,
                   progress_var, progress_log, outcome, error, stop_seen,
                   io_error, lingering, jobs, stale_stop>>
    /\ UNCHANGED isoVars

\* stop_build_process without the test of line 419: the flag is set
\* whether a build thread is alive or not
stop_build_process_unguarded ==
    /\ stop_clicks < MaxStops
    /\ stop_clicks' = stop_clicks + 1
    /\ stop_build' = TRUE
    /\ stop_at_pc' = IF stop_build THEN stop_at_pc ELSE pc
    /\ UNCHANGED <<time_bound, build_thread, build_button, stop_button,
                   after_queue, dialog, pc, step_i, completed_weight,
                   progress_var, progress_log, outcome, error, stop_seen,
                   io_error, lingering, jobs, stale_stop>>
    /\ UNCHANGED isoVars

\* stop_build_process: the handler of the stop button
stop_build_process ==
    /\ stop_clicks < MaxStops
    /\ stop_clicks' = stop_clicks + 1
    /\ IF build_thread = "alive"
       THEN /\ stop_build' = TRUE
            /\ stop_at_pc' = IF stop_build THEN stop_at_pc ELSE pc
       ELSE UNCHANGED <<stop_build, stop_at_pc>>
    /\ UNCHANGED <<time_bound, build_thread, build_button, stop_button,
                   after_queue, dialog, pc, step_i, completed_weight,
                   progress_var, progress_log, outcome, error, stop_seen,
                   io_error, lingering, jobs, stale_stop>>
    /\ UNCHANGED isoVars

\* the Tk main loop runs the oldest callback scheduled with root.after
RunAfter ==
    /\ after_queue # <<>>
    /\ after_queue' = Tail(after_queue)
    /\ LET cb == Head(after_queue) IN
        /\ build_button' = IF cb = "enable_build" THEN "normal" ELSE build_button
        /\ stop_button' = IF cb = "disable_stop" THEN "disabled" ELSE stop_button
        /\ dialog' \in CASE cb = "showinfo" -> {"Build Complete"}
                         \* the lambda reads e, which the except clause unbinds
                         \* when it ends: the callback races with that
                         [] cb = "showerror" -> {"Build Failed", "callback error"}
                         [] OTHER -> {dialog}
    /\ UNCHANGED <<time_bound, stop_build, build_thread, pc, step_i,
                   completed_weight, progress_var, progress_log, outcome, error,
                   stop_seen, io_error, lingering, jobs, stop_clicks, stop_at_pc,
                   stale_stop>>
    /\ UNCHANGED isoVars

threadFrame == <<time_bound, stop_build, build_thread, build_button,
                 stop_button, dialog, lingering, jobs, stop_clicks, stop_at_pc,
                 stale_stop>>

\* _build_thread, lines 447-472: start, workspace, weights
BuildBegin ==
    /\ pc = "begin"
    /\ \E io \in BOOLEAN :
        IF io
        THEN /\ progress_var' = 0
             /\ progress_log' = Append(progress_log, 0)
             /\ BuildFailed("OSError", FALSE, TRUE)
             /\ UNCHANGED <<step_i, completed_weight>>
        ELSE /\ update_progress(0)
             /\ completed_weight' = 0
             /\ step_i' = 0
             /\ pc' = "extract_poll"
             /\ UNCHANGED <<after_queue, outcome, error, stop_seen, io_error>>
    /\ UNCHANGED threadFrame
    /\ UNCHANGED isoVars

\* _build_thread without the test of line 475: a False return of
\* _extract_iso is ignored and the next stage starts
ExtractPollIgnoresResult ==
    /\ pc = "extract_poll"
    /\ pc' = IF stop_build THEN "copy_tools" ELSE "extract_work"
    /\ UNCHANGED <<after_queue, outcome, error, stop_seen, io_error, step_i>>
    /\ UNCHANGED <<completed_weight, progress_var, progress_log>>
    /\ UNCHANGED threadFrame
    /\ UNCHANGED isoVars

\* _extract_iso, lines 574-576: the poll of one loop iteration; a False
\* return raises "Failed to extract ISO" at line 476
ExtractPoll ==
    /\ pc = "extract_poll"
    /\ IF stop_build
       THEN /\ BuildFailed("Failed to extract ISO", TRUE, FALSE)
            /\ UNCHANGED <<step_i>>
       ELSE /\ pc' = "extract_work"
            /\ UNCHANGED <<after_queue, outcome, error, stop_seen, io_error, step_i>>
    /\ UNCHANGED <<completed_weight, progress_var, progress_log>>
    /\ UNCHANGED threadFrame
    /\ UNCHANGED isoVars

\* _extract_iso, lines 577-578: log and time.sleep(0.5); the module never
\* imports time, so the call raises NameError unless the name is bound
ExtractWork ==
    /\ pc = "extract_work"
    /\ IF ~time_bound
       THEN /\ BuildFailed("name 'time' is not defined", FALSE, FALSE)
            /\ UNCHANGED step_i
       ELSE /\ step_i' = step_i + 1
            /\ pc' = IF step_i + 1 < ExtractSteps THEN "extract_poll" ELSE "extract_done"
            /\ UNCHANGED <<after_queue, outcome, error, stop_seen, io_error>>
    /\ UNCHANGED <<completed_weight, progress_var, progress_log>>
    /\ UNCHANGED threadFrame
    /\ UNCHANGED isoVars

\* a stage of _build_thread ends: if self.stop_build: raise ...; otherwise
\* completed_weight += steps[name]; update_progress(completed_weight)
StageCheck(name, next_pc) ==
    IF stop_build
    THEN /\ BuildFailed("Build process stopped by user", TRUE, FALSE)
         /\ UNCHANGED <<completed_weight, progress_var, progress_log>>
    ELSE /\ completed_weight' = completed_weight + steps[name]
         /\ update_progress(completed_weight + steps[name])
         /\ pc' = next_pc
         /\ UNCHANGED <<after_queue, outcome, error, stop_seen, io_error>>

\* _extract_iso, lines 580-585 (return True) and _build_thread, lines 478-482
ExtractDone ==
    /\ pc = "extract_done"
    /\ \E io \in BOOLEAN :
        IF io
        THEN /\ BuildFailed("OSError", FALSE, TRUE)
             /\ UNCHANGED <<completed_weight, progress_var, progress_log>>
        ELSE StageCheck("extract_iso", "copy_tools")
    /\ UNCHANGED step_i
    /\ UNCHANGED threadFrame
    /\ UNCHANGED isoVars

\* _build_thread, lines 484-499: the placeholder files of the selected tools
CopyTools ==
    /\ pc = "copy_tools"
    /\ \E io \in BOOLEAN :
        IF io
        THEN BuildFailed("OSError", FALSE, TRUE)
        ELSE /\ pc' = "copy_tools_check"
             /\ UNCHANGED <<after_queue, outcome, error, stop_seen, io_error>>
    /\ UNCHANGED <<step_i, completed_weight, progress_var, progress_log>>
    /\ UNCHANGED threadFrame
    /\ UNCHANGED isoVars

\* _build_thread, lines 501-505
CopyToolsCheck ==
    /\ pc = "copy_tools_check"
    /\ StageCheck("copy_tools", "customize")
    /\ UNCHANGED step_i
    /\ UNCHANGED threadFrame
    /\ UNCHANGED isoVars

\* _build_thread, lines 507-519: hostname file, branding
Customize ==
    /\ pc = "customize"
    /\ \E io \in BOOLEAN :
        IF io
        THEN BuildFailed("OSError", FALSE, TRUE)
        ELSE /\ pc' = "customize_check"
             /\ UNCHANGED <<after_queue, outcome, error, stop_seen, io_error>>
    /\ UNCHANGED <<step_i, completed_weight, progress_var, progress_log>>
    /\ UNCHANGED threadFrame
    /\ UNCHANGED isoVars

\* _build_thread, lines 521-530
CustomizeCheck ==
    /\ pc = "customize_check"
    /\ StageCheck("customize", "rebuild_poll")
    /\ step_i' = 0
    /\ UNCHANGED threadFrame
    /\ UNCHANGED isoVars

\* _rebuild_iso, lines 596-598: the poll of one loop iteration; a False
\* return raises "Failed to rebuild ISO" at line 532
RebuildPoll ==
    /\ pc = "rebuild_poll"
    /\ IF stop_build
       THEN BuildFailed("Failed to rebuild ISO", TRUE, FALSE)
       ELSE /\ pc' = "rebuild_work"
            /\ UNCHANGED <<after_queue, outcome, error, stop_seen, io_error>>
    /\ UNCHANGED <<step_i, completed_weight, progress_var, progress_log>>
    /\ UNCHANGED threadFrame
    /\ UNCHANGED isoVars

\* _rebuild_iso, lines 599-601: log, update_progress(50 + i*5), time.sleep
RebuildWork ==
    /\ pc = "rebuild_work"
    /\ update_progress(RebuildBase + (step_i * RebuildInc))
    /\ IF ~time_bound
       THEN /\ BuildFailed("name 'time' is not defined", FALSE, FALSE)
            /\ UNCHANGED step_i
       ELSE /\ step_i' = step_i + 1
            /\ pc' = IF step_i + 1 < total_steps THEN "rebuild_poll" ELSE "rebuild_done"
            /\ UNCHANGED <<after_queue, outcome, error, stop_seen, io_error>>
    /\ UNCHANGED completed_weight
    /\ UNCHANGED threadFrame
    /\ UNCHANGED isoVars

\* _rebuild_iso, lines 603-607 (the dummy file, return True) and
\* _build_thread, lines 534-535
RebuildDone ==
    /\ pc = "rebuild_done"
    /\ \E io \in BOOLEAN :
        IF io
        THEN /\ BuildFailed("OSError", FALSE, TRUE)
             /\ UNCHANGED <<completed_weight, progress_var, progress_log>>
        ELSE /\ completed_weight' = completed_weight + steps["rebuild_iso"]
             /\ update_progress(completed_weight + steps["rebuild_iso"])
             /\ pc' = "convert"
             /\ UNCHANGED <<after_queue, outcome, error, stop_seen, io_error>>
    /\ UNCHANGED step_i
    /\ UNCHANGED threadFrame
    /\ UNCHANGED isoVars

\* _build_thread, lines 537-544: the additional formats (log only)
Convert ==
    /\ pc = "convert"
    /\ pc' = "cleanup"
    /\ UNCHANGED <<after_queue, outcome, error, stop_seen, io_error, step_i,
                   completed_weight, progress_var, progress_log>>
    /\ UNCHANGED threadFrame
    /\ UNCHANGED isoVars

\* _build_thread, lines 546-552
Cleanup ==
    /\ pc = "cleanup"
    /\ completed_weight' = completed_weight + steps["cleanup"]
    /\ update_progress(100)
    /\ pc' = "complete"
    /\ UNCHANGED <<after_queue, outcome, error, stop_seen, io_error, step_i>>
    /\ UNCHANGED threadFrame
    /\ UNCHANGED isoVars

\* _build_thread, lines 554-556: "Build completed successfully"
Complete ==
    /\ pc = "complete"
    /\ outcome' = "complete"
    /\ after_queue' = Append(after_queue, "showinfo")
    /\ pc' = "finally1"
    /\ UNCHANGED <<error, stop_seen, io_error, step_i, completed_weight,
                   progress_var, progress_log>>
    /\ UNCHANGED threadFrame
    /\ UNCHANGED isoVars

\* the finally clause without line 564: the build button is not scheduled
\* to be enabled again
Finally1NoEnable ==
    /\ pc = "finally1"
    /\ pc' = "finally2"
    /\ UNCHANGED <<after_queue, outcome, error, stop_seen, io_error, step_i,
                   completed_weight, progress_var, progress_log>>
    /\ UNCHANGED threadFrame
    /\ UNCHANGED isoVars

\* _build_thread, line 564: root.after(... build_button NORMAL)
Finally1 ==
    /\ pc = "finally1"
    /\ after_queue' = Append(after_queue, "enable_build")
    /\ pc' = "finally2"
    /\ UNCHANGED <<outcome, error, stop_seen, io_error, step_i, completed_weight,
                   progress_var, progress_log>>
    /\ UNCHANGED threadFrame
    /\ UNCHANGED isoVars

\* _build_thread, line 565: root.after(... stop_button DISABLED); the thread ends
Finally2 ==
    /\ pc = "finally2"
    /\ after_queue' = Append(after_queue, "disable_stop")
    /\ pc' = "idle"
    /\ build_thread' = "dead"
    /\ UNCHANGED <<time_bound, stop_build, build_button, stop_button, dialog,
                   lingering, jobs, stop_clicks, stop_at_pc, stale_stop>>
    /\ UNCHANGED <<outcome, error, stop_seen, io_error, step_i, completed_weight,
                   progress_var, progress_log>>
    /\ UNCHANGED isoVars

\* line 565 in a build thread that start_build has superseded
LingeringFinally2 ==
    /\ lingering > 0
    /\ lingering' = lingering - 1
    /\ after_queue' = Append(after_queue, "disable_stop")
    /\ UNCHANGED <<time_bound, stop_build, build_thread, build_button,
                   stop_button, dialog, pc, step_i, completed_weight,
                   progress_var, progress_log, outcome, error, stop_seen,
                   io_error, jobs, stop_clicks, stop_at_pc, stale_stop>>
    /\ UNCHANGED isoVars

(***************************************************************************)
(* ISOBuilder                                                              *)
(***************************************************************************)
flagVars == <<stop_requested, stop_calls, stop_at>>
toolVars == <<seven_zip_path, oscdimg_path, boot_files, cmd>>
procVars == <<proc, lines_read, cur_line, returncode>>
mountVars == <<drive_letter, mounted, mounts, unmounts>>
walkVars == <<tree, dir_i, file_i, total_files, copied_files>>
fsVars == <<zip_file, output_file, script_path>>
convVars == <<conv_i, converted_file>>

\* one call of self.log: log(message) or log(message, progress)
Ev(m) == [msg |-> m, has_progress |-> FALSE, progress |-> 0]
EvP(m, p) == [msg |-> m, has_progress |-> TRUE, progress |-> p]

\* the lines a subprocess may print: blank, plain text, or a line with a "%"
\* whose text before the first "%" is (int) or is not an integer; complete
\* says whether the line holds the word "complete" (read only for a line
\* with a "%", and only by the PowerShell strategy)
PctTokens == {-5, 50, 150}
NoLine == [blank |-> TRUE, pct |-> FALSE, int |-> FALSE, val |-> 0, complete |-> FALSE]
OutputLines(completes) ==
    {NoLine}
    \cup {[blank |-> FALSE, pct |-> FALSE, int |-> FALSE, val |-> 0, complete |-> FALSE]}
    \cup {[blank |-> FALSE, pct |-> TRUE, int |-> FALSE, val |-> 0, complete |-> TRUE]}
    \cup {[blank |-> FALSE, pct |-> TRUE, int |-> TRUE, val |-> v, complete |-> c] :
            v \in PctTokens, c \in completes}

\* the trees os.walk may find: the root directory and its subdirectories
Trees == UNION {[1..n -> 0..MaxFilesPerDir] : n \in 1..MaxDirs}

\* a tree large enough for the progress cadence of line 172 to show: one
\* directory of 250 files
ScenarioTrees == {<<250>>}

RECURSIVE SumSeq(_)
SumSeq(s) == IF s = <<>> THEN 0 ELSE Head(s) + SumSeq(Tail(s))

\* int((done / total) * 100) if total > 0 else 0
Percent(done, total) == IF total > 0 THEN (done * 100) \div total ELSE 0

\* ISOBuilder.__init__
InitISO ==
    /\ stop_requested = FALSE
    /\ stop_calls = 0
    /\ call = "none"
    /\ ipc = "idle"
    /\ ret = "none"
    /\ pending = "none"
    /\ tiers = <<>>
    /\ seven_zip_path = "unset"
    /\ oscdimg_path = "unset"
    /\ boot_files = {}
    /\ cmd = <<>>
    /\ events = <<>>
    /\ proc = "none"
    /\ lines_read = 0
    /\ cur_line = NoLine
    /\ returncode = [t \in {"7zip", "oscdimg", "powershell"} |-> -1]
    /\ drive_letter = "None"
    /\ mounted = FALSE
    /\ mounts = 0
    /\ unmounts = 0
    /\ tree = <<>>
    /\ dir_i = 0
    /\ file_i = 0
    /\ total_files = 0
    /\ copied_files = 0
    /\ units_after_stop = 0
    /\ stop_at = "none"
    /\ zip_file = "absent"
    /\ output_file = "absent"
    /\ script_path = "unbound"
    /\ conv_i = 0
    /\ converted_file = "absent"

\* request_stop as a toggle: a second call clears the flag
request_stop_toggle ==
    /\ stop_calls < MaxStops
    /\ stop_requested' = ~stop_requested
    /\ stop_calls' = stop_calls + 1
    /\ stop_at' = IF stop_requested THEN stop_at ELSE ipc
    /\ events' = Append(events, Ev("Stop requested"))
    /\ UNCHANGED <<call, ipc, ret, pending, tiers, units_after_stop>>
    /\ UNCHANGED <<toolVars, procVars, mountVars, walkVars, fsVars>>
    /\ UNCHANGED convVars
    /\ UNCHANGED appVars

\* ISOBuilder.request_stop
request_stop ==
    /\ stop_calls < MaxStops
    /\ stop_requested' = TRUE
    /\ stop_calls' = stop_calls + 1
    /\ stop_at' = IF stop_requested THEN stop_at ELSE ipc
    /\ events' = Append(events, Ev("Stop requested"))
    /\ UNCHANGED <<call, ipc, ret, pending, tiers, units_after_stop>>
    /\ UNCHANGED <<toolVars, procVars, mountVars, walkVars, fsVars>>
    /\ UNCHANGED convVars
    /\ UNCHANGED appVars

\* a unit of work (a line handled, a file copied or archived) is done
UnitDone == units_after_stop' = units_after_stop + (IF stop_requested THEN 1 ELSE 0)

\* the loop body with the test of line 424 reduced to `"%" in line`: the
\* PowerShell strategy parses every line with a percent token
LineEventsIgnoresKeyword(line, label, need_complete) ==
    IF line.blank THEN <<>>
    ELSE IF line.pct
         THEN IF line.int THEN <<EvP(label, line.val)>> ELSE <<Ev("line")>>
         ELSE <<Ev("line")>>

\* the loop body of lines 92-101 / 283-292 / 422-431 for one line
LineEvents(line, label, need_complete) ==
    IF line.blank THEN <<>>
    ELSE IF line.pct /\ (need_complete => line.complete)
         THEN IF line.int THEN <<EvP(label, line.val)>> ELSE <<Ev("line")>>
         ELSE <<Ev("line")>>

\* extract_iso with the test of seven_zip_path inverted
extract_iso_inverted ==
    /\ call = "none"
    /\ call' = "extract_iso"
    /\ \E found \in BOOLEAN :
        /\ seven_zip_path' = IF found THEN "found" ELSE "None"
        /\ tiers' = IF found THEN <<"mount">> ELSE <<"7zip">>
        /\ ipc' = IF found THEN "mount_start" ELSE "7z_start"
    /\ events' = Append(events, Ev("Extracting ISO"))
    /\ UNCHANGED <<ret, pending, units_after_stop, oscdimg_path, boot_files, cmd>>
    /\ UNCHANGED <<flagVars, procVars, mountVars, walkVars, fsVars>>
    /\ UNCHANGED convVars
    /\ UNCHANGED appVars

\* ISOBuilder.extract_iso with _find_7zip
extract_iso ==
    /\ call = "none"
    /\ call' = "extract_iso"
    /\ \E found \in BOOLEAN :
        /\ seven_zip_path' = IF found THEN "found" ELSE "None"
        /\ tiers' = IF found THEN <<"7zip">> ELSE <<"mount">>
        /\ ipc' = IF found THEN "7z_start" ELSE "mount_start"
    /\ events' = Append(events, Ev("Extracting ISO"))
    /\ UNCHANGED <<ret, pending, units_after_stop, oscdimg_path, boot_files, cmd>>
    /\ UNCHANGED <<flagVars, procVars, mountVars, walkVars, fsVars>>
    /\ UNCHANGED convVars
    /\ UNCHANGED appVars

\* _extract_with_7zip, lines 62-84: log, makedirs, Popen; an exception goes
\* to the handler of lines 113-115
SevenZipStart ==
    /\ ipc = "7z_start"
    /\ \E started \in BOOLEAN :
        IF started
        THEN /\ events' = Append(events, Ev("Extracting ISO with 7-Zip"))
             /\ proc' = "running"
             /\ ipc' = "7z_read"
             /\ UNCHANGED ret
        ELSE /\ events' = events \o <<Ev("Extracting ISO with 7-Zip"),
                                      EvP("Error extracting with 7-Zip", 0)>>
             /\ ret' = "False"
             /\ ipc' = "returned"
             /\ UNCHANGED proc
    /\ lines_read' = 0
    /\ UNCHANGED <<call, pending, tiers, units_after_stop, cur_line, returncode>>
    /\ UNCHANGED <<flagVars, toolVars, mountVars, walkVars, fsVars>>
    /\ UNCHANGED convVars
    /\ UNCHANGED appVars

\* for line in process.stdout: the next line arrives, or the output ends
ReadLine(at, poll_pc, wait_pc, completes) ==
    /\ ipc = at
    /\ \/ /\ lines_read < MaxLines
          /\ \E line \in OutputLines(completes) : cur_line' = line
          /\ lines_read' = lines_read + 1
          /\ ipc' = poll_pc
       \/ /\ ipc' = wait_pc
          /\ UNCHANGED <<cur_line, lines_read>>
    /\ UNCHANGED <<call, ret, pending, tiers, events, units_after_stop, proc,
                   returncode>>
    /\ UNCHANGED <<flagVars, toolVars, mountVars, walkVars, fsVars>>
    /\ UNCHANGED convVars
    /\ UNCHANGED appVars

\* the poll without process.terminate(): the subprocess is left running
PollLineNoTerminate(at, handle_pc) ==
    /\ ipc = at
    /\ IF stop_requested
       THEN /\ ret' = "False"
            /\ ipc' = "returned"
       ELSE /\ ipc' = handle_pc
            /\ UNCHANGED ret
    /\ UNCHANGED <<call, pending, tiers, events, units_after_stop, lines_read,
                   cur_line, returncode, proc>>
    /\ UNCHANGED <<flagVars, toolVars, mountVars, walkVars, fsVars>>
    /\ UNCHANGED convVars
    /\ UNCHANGED appVars

\* if self.stop_requested: process.terminate(); return False
PollLine(at, handle_pc) ==
    /\ ipc = at
    /\ IF stop_requested
       THEN /\ proc' = "terminated"
            /\ ret' = "False"
            /\ ipc' = "returned"
       ELSE /\ ipc' = handle_pc
            /\ UNCHANGED <<proc, ret>>
    /\ UNCHANGED <<call, pending, tiers, events, units_after_stop, lines_read,
                   cur_line, returncode>>
    /\ UNCHANGED <<flagVars, toolVars, mountVars, walkVars, fsVars>>
    /\ UNCHANGED convVars
    /\ UNCHANGED appVars

\* if line.strip(): ... the events of one line
HandleLine(at, read_pc, label, need_complete) ==
    /\ ipc = at
    /\ events' = events \o LineEvents(cur_line, label, need_complete)
    /\ UnitDone
    /\ cur_line' = NoLine
    /\ ipc' = read_pc
    /\ UNCHANGED <<call, ret, pending, tiers, proc, lines_read, returncode>>
    /\ UNCHANGED <<flagVars, toolVars, mountVars, walkVars, fsVars>>
    /\ UNCHANGED convVars
    /\ UNCHANGED appVars

\* _extract_with_7zip, line 87
SevenZipRead ==
    /\ call = "extract_iso"
    /\ ReadLine("7z_read", "7z_poll", "7z_wait", {TRUE})

\* _extract_with_7zip, lines 88-90
SevenZipPoll ==
    /\ call = "extract_iso"
    /\ PollLine("7z_poll", "7z_handle")

\* _extract_with_7zip, lines 92-101
SevenZipHandle ==
    /\ call = "extract_iso"
    /\ HandleLine("7z_handle", "7z_read", "Extraction progress", FALSE)

\* the exit codes of a subprocess: success, failure, forced termination
ExitCodes == {0, 1, 137}

\* _extract_with_7zip, lines 103-111
SevenZipWait ==
    /\ ipc = "7z_wait"
    /\ \E rc \in ExitCodes :
        /\ returncode' = [returncode EXCEPT !["7zip"] = rc]
        /\ events' = Append(events,
                IF rc = 0 THEN Ev("ISO extraction completed successfully")
                ELSE EvP("7-Zip extraction failed", 0))
        /\ ret' = IF rc = 0 THEN "True" ELSE "False"
    /\ proc' = "exited"
    /\ ipc' = "returned"
    /\ UNCHANGED <<call, pending, tiers, units_after_stop, lines_read, cur_line>>
    /\ UNCHANGED <<flagVars, toolVars, mountVars, walkVars, fsVars>>
    /\ UNCHANGED convVars
    /\ UNCHANGED appVars

\* _extract_with_windows_mount, lines 119-146: makedirs, Mount-DiskImage, the
\* drive letter, the count of the files
MountStart ==
    /\ ipc = "mount_start"
    /\ \E r \in {"makedirs error", "mount failed", "cannot run", "no letter", "mounted"} :
        CASE r = "makedirs error" ->
               \* os.makedirs raises: handler of lines 180-182
               /\ events' = events \o <<Ev("Mounting ISO"),
                                        EvP("Error extracting with Windows mount", 0)>>
               /\ pending' = "False"
               /\ UNCHANGED <<mountVars, walkVars>>
          [] r = "mount failed" ->
               \* check=True raises CalledProcessError: handler of lines 138-140
               /\ events' = events \o <<Ev("Mounting ISO"),
                                        EvP("Failed to mount ISO using PowerShell", 0)>>
               /\ pending' = "False"
               /\ UNCHANGED <<mountVars, walkVars>>
          [] r = "cannot run" ->
               \* powershell cannot be started: an OSError, handler of lines 180-182
               /\ events' = events \o <<Ev("Mounting ISO"),
                                        EvP("Error extracting with Windows mount", 0)>>
               /\ pending' = "False"
               /\ UNCHANGED <<mountVars, walkVars>>
          [] r = "no letter" ->
               \* the image is mounted, stdout is empty: raise Exception at line 135
               /\ events' = events \o <<Ev("Mounting ISO"),
                                        EvP("Error extracting with Windows mount", 0)>>
               /\ drive_letter' = ""
               /\ mounted' = TRUE
               /\ mounts' = mounts + 1
               /\ pending' = "False"
               /\ UNCHANGED <<unmounts, walkVars>>
          [] r = "mounted" ->
               /\ events' = events \o <<Ev("Mounting ISO"), Ev("ISO mounted at drive")>>
               /\ drive_letter' = "E"
               /\ mounted' = TRUE
               /\ mounts' = mounts + 1
               /\ \E t \in Trees \cup ScenarioTrees :
                    /\ tree' = t
                    /\ total_files' = SumSeq(t)
               /\ copied_files' = 0
               /\ dir_i' = 1
               /\ file_i' = 0
               /\ pending' = "none"
               /\ UNCHANGED unmounts
    /\ ipc' = IF pending' = "none" THEN "dir_poll" ELSE "mount_finally"
    /\ UNCHANGED <<call, ret, tiers, units_after_stop>>
    /\ UNCHANGED <<flagVars, toolVars, procVars, fsVars>>
    /\ UNCHANGED convVars
    /\ UNCHANGED appVars

\* where the walk goes after the file (d, f): the next file of the
\* directory, the next directory, or the end of the walk
AfterFile(d, f) ==
    IF f < tree[d] THEN <<"file_poll", d, f + 1>>
    ELSE IF d < Len(tree) THEN <<"dir_poll", d + 1, 0>>
    ELSE <<"copy_done", d, f>>

\* _extract_with_windows_mount, lines 150-157: the poll before a directory,
\* and its target directory
DirPoll ==
    /\ ipc = "dir_poll"
    /\ IF stop_requested
       THEN /\ pending' = "False"
            /\ ipc' = "mount_finally"
            /\ UNCHANGED <<events, dir_i, file_i>>
       ELSE \E made \in BOOLEAN :
              IF made
              THEN /\ ipc' = AfterFile(dir_i, 0)[1]
                   /\ dir_i' = AfterFile(dir_i, 0)[2]
                   /\ file_i' = AfterFile(dir_i, 0)[3]
                   /\ UNCHANGED <<events, pending>>
              ELSE \* os.makedirs raises: handler of lines 180-182
                   /\ events' = Append(events, EvP("Error extracting with Windows mount", 0))
                   /\ pending' = "False"
                   /\ ipc' = "mount_finally"
                   /\ UNCHANGED <<dir_i, file_i>>
    /\ UNCHANGED <<call, ret, tiers, units_after_stop, tree, total_files, copied_files>>
    /\ UNCHANGED <<flagVars, toolVars, procVars, mountVars, fsVars>>
    /\ UNCHANGED convVars
    /\ UNCHANGED appVars

\* _extract_with_windows_mount, lines 160-162: the poll before a file
FilePoll ==
    /\ ipc = "file_poll"
    /\ IF stop_requested
       THEN /\ pending' = "False"
            /\ ipc' = "mount_finally"
       ELSE /\ ipc' = "file_copy"
            /\ UNCHANGED pending
    /\ UNCHANGED <<call, ret, tiers, events, units_after_stop>>
    /\ UNCHANGED <<flagVars, toolVars, procVars, mountVars, walkVars, fsVars>>
    /\ UNCHANGED convVars
    /\ UNCHANGED appVars

\* the files of this walk whose copy raised
CopyErrors == Cardinality({i \in 1..Len(events) : events[i].msg = "Error copying"})

\* the copy loop without the test of line 172: progress after every file
FileCopyEveryFile ==
    /\ ipc = "file_copy"
    /\ \E copied \in BOOLEAN :
        IF copied
        THEN /\ copied_files' = copied_files + 1
             /\ events' = Append(events, EvP("Copying files",
                                             Percent(copied_files + 1, total_files)))
        ELSE /\ CopyErrors < MaxCopyErrors
             /\ events' = Append(events, Ev("Error copying"))
             /\ UNCHANGED copied_files
    /\ UnitDone
    /\ ipc' = AfterFile(dir_i, file_i)[1]
    /\ dir_i' = AfterFile(dir_i, file_i)[2]
    /\ file_i' = AfterFile(dir_i, file_i)[3]
    /\ UNCHANGED <<call, ret, pending, tiers, tree, total_files>>
    /\ UNCHANGED <<flagVars, toolVars, procVars, mountVars, fsVars>>
    /\ UNCHANGED convVars
    /\ UNCHANGED appVars

\* the copy loop without the try of lines 167-175: a copy error leaves the
\* loop for the handler of lines 180-182
FileCopyErrorFatal ==
    /\ ipc = "file_copy"
    /\ \E copied \in BOOLEAN :
        IF copied
        THEN /\ copied_files' = copied_files + 1
             /\ events' = IF \/ (copied_files + 1) % ProgressEvery = 0
                             \/ copied_files + 1 = total_files
                          THEN Append(events, EvP("Copying files",
                                                  Percent(copied_files + 1, total_files)))
                          ELSE events
             /\ ipc' = AfterFile(dir_i, file_i)[1]
             /\ dir_i' = AfterFile(dir_i, file_i)[2]
             /\ file_i' = AfterFile(dir_i, file_i)[3]
             /\ UNCHANGED pending
        ELSE /\ CopyErrors < MaxCopyErrors
             /\ events' = Append(events, Ev("Error copying"))
             /\ pending' = "False"
             /\ ipc' = "mount_finally"
             /\ UNCHANGED <<copied_files, dir_i, file_i>>
    /\ UnitDone
    /\ UNCHANGED <<call, ret, tiers, tree, total_files>>
    /\ UNCHANGED <<flagVars, toolVars, procVars, mountVars, fsVars>>
    /\ UNCHANGED convVars
    /\ UNCHANGED appVars

\* the copy loop with `copied_files += 1` ahead of shutil.copy2: a file
\* whose copy raises is counted too
FileCopyCountsErrors ==
    /\ ipc = "file_copy"
    /\ \E copied \in BOOLEAN :
        IF copied
        THEN /\ events' = IF \/ (copied_files + 1) % ProgressEvery = 0
                             \/ copied_files + 1 = total_files
                          THEN Append(events, EvP("Copying files",
                                                  Percent(copied_files + 1, total_files)))
                          ELSE events
        ELSE /\ CopyErrors < MaxCopyErrors
             /\ events' = Append(events, Ev("Error copying"))
    /\ copied_files' = copied_files + 1
    /\ UnitDone
    /\ ipc' = AfterFile(dir_i, file_i)[1]
    /\ dir_i' = AfterFile(dir_i, file_i)[2]
    /\ file_i' = AfterFile(dir_i, file_i)[3]
    /\ UNCHANGED <<call, ret, pending, tiers, tree, total_files>>
    /\ UNCHANGED <<flagVars, toolVars, procVars, mountVars, fsVars>>
    /\ UNCHANGED convVars
    /\ UNCHANGED appVars

\* _extract_with_windows_mount, lines 164-175: one file is copied, or the
\* copy raises and the error is logged
FileCopy ==
    /\ ipc = "file_copy"
    /\ \E copied \in BOOLEAN :
        IF copied
        THEN /\ copied_files' = copied_files + 1
             /\ events' = IF \/ (copied_files + 1) % ProgressEvery = 0
                             \/ copied_files + 1 = total_files
                          THEN Append(events, EvP("Copying files",
                                                  Percent(copied_files + 1, total_files)))
                          ELSE events
        ELSE /\ CopyErrors < MaxCopyErrors
             /\ events' = Append(events, Ev("Error copying"))
             /\ UNCHANGED copied_files
    /\ UnitDone
    /\ ipc' = AfterFile(dir_i, file_i)[1]
    /\ dir_i' = AfterFile(dir_i, file_i)[2]
    /\ file_i' = AfterFile(dir_i, file_i)[3]
    /\ UNCHANGED <<call, ret, pending, tiers, tree, total_files>>
    /\ UNCHANGED <<flagVars, toolVars, procVars, mountVars, fsVars>>
    /\ UNCHANGED convVars
    /\ UNCHANGED appVars

\* the end of the copy loop with a closing progress event of 100
CopyDoneReportsProgress ==
    /\ ipc = "copy_done"
    /\ events' = events \o <<EvP("Copying files", 100),
                             Ev("ISO extraction completed successfully")>>
    /\ pending' = "True"
    /\ ipc' = "mount_finally"
    /\ UNCHANGED <<call, ret, tiers, units_after_stop>>
    /\ UNCHANGED <<flagVars, toolVars, procVars, mountVars, walkVars, fsVars>>
    /\ UNCHANGED convVars
    /\ UNCHANGED appVars

\* _extract_with_windows_mount, lines 177-178
CopyDone ==
    /\ ipc = "copy_done"
    /\ events' = Append(events, Ev("ISO extraction completed successfully"))
    /\ pending' = "True"
    /\ ipc' = "mount_finally"
    /\ UNCHANGED <<call, ret, tiers, units_after_stop>>
    /\ UNCHANGED <<flagVars, toolVars, procVars, mountVars, walkVars, fsVars>>
    /\ UNCHANGED convVars
    /\ UNCHANGED appVars

\* the dismount at the end of the try block instead of in a finally clause:
\* it runs only when the copy loop has completed
MountFinallyOnSuccess ==
    /\ ipc = "mount_finally"
    /\ IF drive_letter \notin {"None", ""} /\ pending = "True"
       THEN /\ unmounts' = unmounts + 1
            /\ \E done \in BOOLEAN :
                /\ mounted' = IF done THEN FALSE ELSE mounted
                /\ events' = events \o <<Ev("Unmounting ISO"),
                               IF done THEN Ev("ISO unmounted successfully")
                               ELSE Ev("Error unmounting ISO")>>
       ELSE UNCHANGED <<unmounts, mounted, events>>
    /\ ret' = pending
    /\ ipc' = "returned"
    /\ UNCHANGED <<call, pending, tiers, units_after_stop, drive_letter, mounts>>
    /\ UNCHANGED <<flagVars, toolVars, procVars, walkVars, fsVars>>
    /\ UNCHANGED convVars
    /\ UNCHANGED appVars

\* the finally clause without the try of lines 187-193: an error of the
\* dismount leaves the method as an exception
MountFinallyPropagates ==
    /\ ipc = "mount_finally"
    /\ IF drive_letter \notin {"None", ""}
       THEN /\ unmounts' = unmounts + 1
            /\ \E done \in BOOLEAN :
                /\ mounted' = IF done THEN FALSE ELSE mounted
                /\ events' = events \o <<Ev("Unmounting ISO"),
                               IF done THEN Ev("ISO unmounted successfully")
                               ELSE Ev("Error unmounting ISO")>>
                /\ ret' = IF done THEN pending ELSE "raised"
       ELSE /\ ret' = pending
            /\ UNCHANGED <<unmounts, mounted, events>>
    /\ ipc' = "returned"
    /\ UNCHANGED <<call, pending, tiers, units_after_stop, drive_letter, mounts>>
    /\ UNCHANGED <<flagVars, toolVars, procVars, walkVars, fsVars>>
    /\ UNCHANGED convVars
    /\ UNCHANGED appVars

\* _extract_with_windows_mount, lines 184-193: the finally clause, then the
\* return of the try block takes effect
MountFinally ==
    /\ ipc = "mount_finally"
    /\ IF drive_letter \notin {"None", ""}
       THEN /\ unmounts' = unmounts + 1
            /\ \E done \in BOOLEAN :
                /\ mounted' = IF done THEN FALSE ELSE mounted
                /\ events' = events \o <<Ev("Unmounting ISO"),
                               IF done THEN Ev("ISO unmounted successfully")
                               ELSE Ev("Error unmounting ISO")>>
       ELSE UNCHANGED <<unmounts, mounted, events>>
    /\ ret' = pending
    /\ ipc' = "returned"
    /\ UNCHANGED <<call, pending, tiers, units_after_stop, drive_letter, mounts>>
    /\ UNCHANGED <<flagVars, toolVars, procVars, walkVars, fsVars>>
    /\ UNCHANGED convVars
    /\ UNCHANGED appVars

\* ISOBuilder.create_iso with _find_oscdimg
create_iso ==
    /\ call = "none"
    /\ call' = "create_iso"
    /\ \E found \in BOOLEAN :
        /\ oscdimg_path' = IF found THEN "found" ELSE "None"
        /\ tiers' = IF found THEN <<"oscdimg">> ELSE <<"powershell">>
        /\ ipc' = IF found THEN "osc_start" ELSE "ps_probe"
        /\ events' = events \o
              (IF found THEN <<Ev("Creating ISO from")>>
               ELSE <<Ev("Creating ISO from"), Ev("oscdimg.exe not found")>>)
    /\ \E existed \in BOOLEAN : output_file' = IF existed THEN "old" ELSE "absent"
    /\ UNCHANGED <<ret, pending, units_after_stop, zip_file, script_path,
                   seven_zip_path, boot_files, cmd>>
    /\ UNCHANGED <<flagVars, procVars, mountVars, walkVars>>
    /\ UNCHANGED convVars
    /\ UNCHANGED appVars

\* for boot_file in ['etfsboot.com', 'efisys.bin'] (line 243)
BootFiles == <<"etfsboot.com", "efisys.bin">>

\* 'efi' in boot_file.lower() (line 247), for the two names of line 243
ContainsEfi == [f \in {"etfsboot.com", "efisys.bin"} |-> f = "efisys.bin"]

\* the loop of lines 243-250 without its break: every boot file that
\* exists adds its arguments
RECURSIVE BootArgsNoBreak(_, _)
BootArgsNoBreak(files, exist) ==
    IF files = <<>> THEN <<>>
    ELSE (IF Head(files) \in exist
          THEN <<"-b", Head(files)>>
               \o (IF ContainsEfi[Head(files)] THEN <<"-e", "-u1">> ELSE <<>>)
          ELSE <<>>)
         \o BootArgsNoBreak(Tail(files), exist)

\* boot_args, lines 242-250: the arguments of the first boot file that
\* exists; exist is the set of the files for which os.path.exists is true
RECURSIVE boot_args(_, _)
boot_args(files, exist) ==
    IF files = <<>> THEN <<>>
    ELSE IF Head(files) \in exist
         THEN <<"-b", Head(files)>>
              \o (IF ContainsEfi[Head(files)] THEN <<"-e", "-u1">> ELSE <<>>)
         ELSE boot_args(Tail(files), exist)

\* cmd, lines 253-265
OscdimgCmd(exist) ==
    <<"oscdimg.exe", "-m", "-o", "-u2", "-l volume_label">>
        \o boot_args(BootFiles, exist) \o <<"source_dir", "output_iso">>

\* _create_iso_with_oscdimg, lines 238-275: log, the command, Popen; an
\* exception goes to the handler of lines 304-306
OscdimgStart ==
    /\ ipc = "osc_start"
    /\ \E exist \in SUBSET {"etfsboot.com", "efisys.bin"} :
        /\ boot_files' = exist
        /\ cmd' = OscdimgCmd(exist)
    /\ \E started \in BOOLEAN :
        IF started
        THEN /\ events' = events \o <<Ev("Creating ISO with oscdimg.exe"), Ev("Running")>>
             /\ proc' = "running"
             /\ ipc' = "osc_read"
             /\ UNCHANGED ret
        ELSE /\ events' = events \o <<Ev("Creating ISO with oscdimg.exe"), Ev("Running"),
                                      EvP("Error creating ISO with oscdimg", 0)>>
             /\ ret' = "False"
             /\ ipc' = "returned"
             /\ UNCHANGED proc
    /\ lines_read' = 0
    /\ UNCHANGED <<call, pending, tiers, units_after_stop, cur_line, returncode>>
    /\ UNCHANGED <<seven_zip_path, oscdimg_path>>
    /\ UNCHANGED <<flagVars, mountVars, walkVars, fsVars>>
    /\ UNCHANGED convVars
    /\ UNCHANGED appVars

\* _create_iso_with_oscdimg, line 278
OscdimgRead ==
    /\ call = "create_iso"
    /\ ReadLine("osc_read", "osc_poll", "osc_wait", {TRUE})

\* _create_iso_with_oscdimg, lines 279-281
OscdimgPoll ==
    /\ call = "create_iso"
    /\ PollLine("osc_poll", "osc_handle")

\* _create_iso_with_oscdimg, lines 283-292
OscdimgHandle ==
    /\ call = "create_iso"
    /\ HandleLine("osc_handle", "osc_read", "ISO creation progress", FALSE)

\* the test of the exit code inverted: exit code 0 taken for a failure
OscdimgWaitInverted ==
    /\ ipc = "osc_wait"
    /\ \E rc \in ExitCodes :
        /\ returncode' = [returncode EXCEPT !["oscdimg"] = rc]
        /\ events' = Append(events,
                IF rc # 0 THEN Ev("ISO created successfully")
                ELSE EvP("oscdimg failed", 0))
        /\ ret' = IF rc # 0 THEN "True" ELSE "False"
        /\ output_file' = IF rc = 0 THEN "image" ELSE output_file
    /\ proc' = "exited"
    /\ ipc' = "returned"
    /\ UNCHANGED <<call, pending, tiers, units_after_stop, lines_read, cur_line,
                   zip_file, script_path>>
    /\ UNCHANGED <<flagVars, toolVars, mountVars, walkVars>>
    /\ UNCHANGED convVars
    /\ UNCHANGED appVars

\* _create_iso_with_oscdimg, lines 294-302
OscdimgWait ==
    /\ ipc = "osc_wait"
    /\ \E rc \in ExitCodes :
        /\ returncode' = [returncode EXCEPT !["oscdimg"] = rc]
        /\ events' = Append(events,
                IF rc = 0 THEN Ev("ISO created successfully")
                ELSE EvP("oscdimg failed", 0))
        /\ ret' = IF rc = 0 THEN "True" ELSE "False"
        /\ output_file' = IF rc = 0 THEN "image" ELSE output_file
    /\ proc' = "exited"
    /\ ipc' = "returned"
    /\ UNCHANGED <<call, pending, tiers, units_after_stop, lines_read, cur_line,
                   zip_file, script_path>>
    /\ UNCHANGED <<flagVars, toolVars, mountVars, walkVars>>
    /\ UNCHANGED convVars
    /\ UNCHANGED appVars

\* the handler of lines 445-449: log the error, then _create_basic_iso
PowershellExcept(logged) ==
    /\ events' = events \o logged \o <<EvP("Error creating ISO with PowerShell", 0)>>
    /\ tiers' = Append(tiers, "basic")
    /\ ipc' = "basic_start"

\* _create_iso_with_powershell, lines 310-394: the probe for New-IsoFile,
\* and the helper script when the probe does not find it
PowershellProbe ==
    /\ ipc = "ps_probe"
    /\ \E r \in {"cannot run", "present", "missing", "write error", "import error"} :
        CASE r = "cannot run" ->
               /\ PowershellExcept(<<Ev("Creating ISO with PowerShell")>>)
               /\ UNCHANGED script_path
          [] r = "present" ->
               \* script_path is assigned only inside the if of line 317
               /\ events' = Append(events, Ev("Creating ISO with PowerShell"))
               /\ ipc' = "ps_launch"
               /\ UNCHANGED <<tiers, script_path>>
          [] r = "missing" ->
               /\ events' = events \o <<Ev("Creating ISO with PowerShell"),
                                        Ev("New-IsoFile command not available")>>
               /\ script_path' = "bound"
               /\ ipc' = "ps_launch"
               /\ UNCHANGED tiers
          [] r \in {"write error", "import error"} ->
               /\ PowershellExcept(<<Ev("Creating ISO with PowerShell"),
                                     Ev("New-IsoFile command not available")>>)
               /\ script_path' = "bound"
    /\ UNCHANGED <<call, ret, pending, units_after_stop, zip_file, output_file>>
    /\ UNCHANGED <<flagVars, toolVars, procVars, mountVars, walkVars>>
    /\ UNCHANGED convVars
    /\ UNCHANGED appVars

\* _create_iso_with_powershell, lines 396-414: the boot files, the command
\* (which reads script_path), Popen
PowershellLaunch ==
    /\ ipc = "ps_launch"
    /\ IF script_path = "unbound"
       THEN \* UnboundLocalError at line 405
            /\ PowershellExcept(<<>>)
            /\ UNCHANGED proc
       ELSE \E started \in BOOLEAN :
              IF started
              THEN /\ events' = Append(events, Ev("Running PowerShell ISO creation"))
                   /\ proc' = "running"
                   /\ ipc' = "ps_read"
                   /\ UNCHANGED tiers
              ELSE /\ PowershellExcept(<<Ev("Running PowerShell ISO creation")>>)
                   /\ UNCHANGED proc
    /\ lines_read' = 0
    /\ UNCHANGED <<call, ret, pending, units_after_stop, cur_line, returncode>>
    /\ UNCHANGED <<flagVars, toolVars, mountVars, walkVars, fsVars>>
    /\ UNCHANGED convVars
    /\ UNCHANGED appVars

\* _create_iso_with_powershell, line 417
PowershellRead ==
    /\ call = "create_iso"
    /\ ReadLine("ps_read", "ps_poll", "ps_wait", BOOLEAN)

\* _create_iso_with_powershell, lines 418-420
PowershellPoll ==
    /\ call = "create_iso"
    /\ PollLine("ps_poll", "ps_handle")

\* _create_iso_with_powershell, lines 422-431
PowershellHandle ==
    /\ call = "create_iso"
    /\ HandleLine("ps_handle", "ps_read", "ISO creation progress", TRUE)

\* _create_iso_with_powershell without the call of line 443: a non-zero
\* exit code returns False
PowershellWaitNoFallback ==
    /\ ipc = "ps_wait"
    /\ \E rc \in ExitCodes :
        /\ returncode' = [returncode EXCEPT !["powershell"] = rc]
        /\ IF rc = 0
           THEN /\ events' = Append(events, Ev("ISO created successfully with PowerShell"))
                /\ ret' = "True"
                /\ output_file' \in {"image", output_file}
           ELSE /\ events' = Append(events, EvP("PowerShell ISO creation failed", 0))
                /\ ret' = "False"
                /\ UNCHANGED output_file
    /\ ipc' = "returned"
    /\ proc' = "exited"
    /\ UNCHANGED <<call, pending, tiers, units_after_stop, lines_read, cur_line,
                   zip_file, script_path>>
    /\ UNCHANGED <<flagVars, toolVars, mountVars, walkVars>>
    /\ UNCHANGED convVars
    /\ UNCHANGED appVars

\* _create_iso_with_powershell, lines 433-443; exit code 0 does not tell
\* whether New-IsoFile wrote the image
PowershellWait ==
    /\ ipc = "ps_wait"
    /\ \E rc \in ExitCodes :
        /\ returncode' = [returncode EXCEPT !["powershell"] = rc]
        /\ IF rc = 0
           THEN /\ events' = Append(events, Ev("ISO created successfully with PowerShell"))
                /\ ret' = "True"
                /\ ipc' = "returned"
                /\ output_file' \in {"image", output_file}
                /\ UNCHANGED tiers
           ELSE /\ events' = Append(events, EvP("PowerShell ISO creation failed", 0))
                /\ tiers' = Append(tiers, "basic")
                /\ ipc' = "basic_start"
                /\ UNCHANGED <<ret, output_file>>
    /\ proc' = "exited"
    /\ UNCHANGED <<call, pending, units_after_stop, lines_read, cur_line,
                   zip_file, script_path>>
    /\ UNCHANGED <<flagVars, toolVars, mountVars, walkVars>>
    /\ UNCHANGED convVars
    /\ UNCHANGED appVars

\* _create_basic_iso with the unlink of lines 479-480 ahead of the archive
\* loop: the old output is removed before the archive is written
BasicStartUnlinksOutput ==
    /\ ipc = "basic_start"
    /\ \E opened \in BOOLEAN :
        IF opened
        THEN /\ events' = events \o <<Ev("Attempting basic ISO creation"),
                                      Ev("Creating archive of files")>>
             /\ zip_file' = "partial"
             /\ output_file' = "absent"
             /\ \E file_count \in {SumSeq(t) : t \in Trees} :
                  /\ total_files' = file_count
                  /\ ipc' = IF file_count > 0 THEN "basic_poll" ELSE "basic_finish"
             /\ copied_files' = 0
             /\ UNCHANGED <<ret, tree, dir_i, file_i>>
        ELSE /\ events' = events \o <<Ev("Attempting basic ISO creation"),
                                      Ev("Creating archive of files"),
                                      EvP("Error creating basic ISO archive", 0)>>
             /\ ret' = "False"
             /\ ipc' = "returned"
             /\ UNCHANGED <<zip_file, output_file, walkVars>>
    /\ UNCHANGED <<call, pending, tiers, units_after_stop, script_path>>
    /\ UNCHANGED <<flagVars, toolVars, procVars, mountVars>>
    /\ UNCHANGED convVars
    /\ UNCHANGED appVars

\* _create_basic_iso, lines 453-462: log, open the archive at
\* output_iso + ".zip", count the files
BasicStart ==
    /\ ipc = "basic_start"
    /\ \E opened \in BOOLEAN :
        IF opened
        THEN /\ events' = events \o <<Ev("Attempting basic ISO creation"),
                                      Ev("Creating archive of files")>>
             /\ zip_file' = "partial"
             /\ \E file_count \in {SumSeq(t) : t \in Trees} :
                  /\ total_files' = file_count
                  /\ ipc' = IF file_count > 0 THEN "basic_poll" ELSE "basic_finish"
             /\ copied_files' = 0
             /\ UNCHANGED <<ret, tree, dir_i, file_i>>
        ELSE /\ events' = events \o <<Ev("Attempting basic ISO creation"),
                                      Ev("Creating archive of files"),
                                      EvP("Error creating basic ISO archive", 0)>>
             /\ ret' = "False"
             /\ ipc' = "returned"
             /\ UNCHANGED <<zip_file, walkVars>>
    /\ UNCHANGED <<call, pending, tiers, units_after_stop, output_file, script_path>>
    /\ UNCHANGED <<flagVars, toolVars, procVars, mountVars>>
    /\ UNCHANGED convVars
    /\ UNCHANGED appVars

\* _create_basic_iso, lines 466-467: the poll before a file; the with
\* statement closes the archive on the way out
BasicPoll ==
    /\ ipc = "basic_poll"
    /\ IF stop_requested
       THEN /\ ret' = "False"
            /\ ipc' = "returned"
       ELSE /\ ipc' = "basic_write"
            /\ UNCHANGED ret
    /\ UNCHANGED <<call, pending, tiers, events, units_after_stop>>
    /\ UNCHANGED <<flagVars, toolVars, procVars, mountVars, walkVars, fsVars>>
    /\ UNCHANGED convVars
    /\ UNCHANGED appVars

\* _create_basic_iso without the handler of lines 486-488: an error of
\* zipf.write leaves the method as an exception
BasicWriteRaises ==
    /\ ipc = "basic_write"
    /\ \E written \in BOOLEAN :
        IF written
        THEN /\ copied_files' = copied_files + 1
             /\ events' = IF \/ (copied_files + 1) % ProgressEvery = 0
                             \/ copied_files + 1 = total_files
                          THEN Append(events, EvP("Archiving",
                                                  Percent(copied_files + 1, total_files)))
                          ELSE events
             /\ ipc' = IF copied_files + 1 < total_files THEN "basic_poll"
                       ELSE "basic_finish"
             /\ UNCHANGED ret
        ELSE /\ ret' = "raised"
             /\ ipc' = "returned"
             /\ UNCHANGED <<copied_files, events>>
    /\ UnitDone
    /\ UNCHANGED <<call, pending, tiers, tree, dir_i, file_i, total_files>>
    /\ UNCHANGED <<flagVars, toolVars, procVars, mountVars, fsVars>>
    /\ UNCHANGED convVars
    /\ UNCHANGED appVars

\* _create_basic_iso, lines 469-476: one file goes into the archive; an
\* error of zipf.write leaves the loop for the handler of lines 486-488
BasicWrite ==
    /\ ipc = "basic_write"
    /\ \E written \in BOOLEAN :
        IF written
        THEN /\ copied_files' = copied_files + 1
             /\ events' = IF \/ (copied_files + 1) % ProgressEvery = 0
                             \/ copied_files + 1 = total_files
                          THEN Append(events, EvP("Archiving",
                                                  Percent(copied_files + 1, total_files)))
                          ELSE events
             /\ ipc' = IF copied_files + 1 < total_files THEN "basic_poll"
                       ELSE "basic_finish"
             /\ UNCHANGED ret
        ELSE /\ events' = Append(events, EvP("Error creating basic ISO archive", 0))
             /\ ret' = "False"
             /\ ipc' = "returned"
             /\ UNCHANGED copied_files
    /\ UnitDone
    /\ UNCHANGED <<call, pending, tiers, tree, dir_i, file_i, total_files>>
    /\ UNCHANGED <<flagVars, toolVars, procVars, mountVars, fsVars>>
    /\ UNCHANGED convVars
    /\ UNCHANGED appVars

\* _create_basic_iso, lines 478-484: the archive is closed, the old output
\* is unlinked, the archive is renamed to the output path
BasicFinish ==
    /\ ipc = "basic_finish"
    /\ \E r \in {"renamed", "unlink error", "rename error"} :
        CASE r = "renamed" ->
               /\ output_file' = "archive"
               /\ zip_file' = "absent"
               /\ events' = Append(events, Ev("Basic ISO archive created"))
               /\ ret' = "True"
          [] r = "unlink error" ->
               /\ output_file # "absent"
               /\ zip_file' = "complete"
               /\ events' = Append(events, EvP("Error creating basic ISO archive", 0))
               /\ ret' = "False"
               /\ UNCHANGED output_file
          [] r = "rename error" ->
               /\ output_file' = "absent"
               /\ zip_file' = "complete"
               /\ events' = Append(events, EvP("Error creating basic ISO archive", 0))
               /\ ret' = "False"
    /\ ipc' = "returned"
    /\ UNCHANGED <<call, pending, tiers, units_after_stop, script_path>>
    /\ UNCHANGED <<flagVars, toolVars, procVars, mountVars, walkVars>>
    /\ UNCHANGED convVars
    /\ UNCHANGED appVars

\* convert_to_vhd / convert_to_ami, lines 492 / 515: the opening log; a
\* file may be at the output path already
ConvertBegin(method) ==
    /\ call = "none"
    /\ call' = method
    /\ events' = Append(events, Ev("Converting"))
    /\ conv_i' = 0
    /\ \E existed \in BOOLEAN : converted_file' = IF existed THEN "old" ELSE "absent"
    /\ ipc' = "conv_poll"
    /\ UNCHANGED <<ret, pending, tiers, units_after_stop>>
    /\ UNCHANGED <<flagVars, toolVars, procVars, mountVars, walkVars, fsVars>>
    /\ UNCHANGED appVars

\* ISOBuilder.convert_to_vhd
convert_to_vhd == ConvertBegin("convert_to_vhd")

\* ISOBuilder.convert_to_ami
convert_to_ami == ConvertBegin("convert_to_ami")

\* lines 499-501 / 522-524: for i in range(total_steps): the poll of the flag
ConvertPoll ==
    /\ ipc = "conv_poll"
    /\ IF stop_requested
       THEN /\ ret' = "False"
            /\ ipc' = "returned"
       ELSE /\ ipc' = "conv_step"
            /\ UNCHANGED ret
    /\ UNCHANGED <<call, pending, tiers, events, units_after_stop>>
    /\ UNCHANGED <<flagVars, toolVars, procVars, mountVars, walkVars, fsVars>>
    /\ UNCHANGED convVars
    /\ UNCHANGED appVars

\* lines 503-504 / 526-527: the log with int((i / total_steps) * 100), the
\* sleep, and the next i
ConvertStep ==
    /\ ipc = "conv_step"
    /\ events' = Append(events, EvP("conversion step", Percent(conv_i, ConvertSteps)))
    /\ UnitDone
    /\ conv_i' = conv_i + 1
    /\ ipc' = IF conv_i + 1 < ConvertSteps THEN "conv_poll" ELSE "conv_write"
    /\ UNCHANGED <<call, ret, pending, tiers, converted_file>>
    /\ UNCHANGED <<flagVars, toolVars, procVars, mountVars, walkVars, fsVars>>
    /\ UNCHANGED appVars

\* lines 506-511 / 529-534: open(path, "wb"), write, close, log, return True.
\* No try encloses them: an error of open leaves the path as it was, an
\* error of the write or of the flush at close leaves the file that open
\* has created or truncated, and both leave the method as an exception.
ConvertWrite ==
    /\ ipc = "conv_write"
    /\ \E r \in {"written", "open error", "write error"} :
        CASE r = "written" ->
               /\ converted_file' = "written"
               /\ events' = Append(events, Ev("conversion completed"))
               /\ ret' = "True"
          [] r = "open error" ->
               /\ ret' = "raised"
               /\ UNCHANGED <<converted_file, events>>
          [] r = "write error" ->
               /\ converted_file' = "truncated"
               /\ ret' = "raised"
               /\ UNCHANGED events
    /\ ipc' = "returned"
    /\ UNCHANGED <<call, pending, tiers, units_after_stop, conv_i>>
    /\ UNCHANGED <<flagVars, toolVars, procVars, mountVars, walkVars, fsVars>>
    /\ UNCHANGED appVars

(***************************************************************************)
(* Specifications                                                          *)
(***************************************************************************)
Init == InitApp /\ InitISO

\* an ISOBuilder beside a controller that stays idle: the module as written
InitBuilder == Init /\ ~time_bound

NextApp ==
    \/ start_build
    \/ stop_build_process
    \/ RunAfter
    \/ BuildBegin
    \/ ExtractPoll
    \/ ExtractWork
    \/ ExtractDone
    \/ CopyTools
    \/ CopyToolsCheck
    \/ Customize
    \/ CustomizeCheck
    \/ RebuildPoll
    \/ RebuildWork
    \/ RebuildDone
    \/ Convert
    \/ Cleanup
    \/ Complete
    \/ Finally1
    \/ Finally2
    \/ LingeringFinally2
    \/ request_stop

SpecApp == Init /\ [][NextApp]_vars

\* a step of a build thread: _build_thread is the target of a
\* threading.Thread, which the interpreter keeps scheduling
BuildThreadStep ==
    \/ BuildBegin
    \/ ExtractPoll
    \/ ExtractWork
    \/ ExtractDone
    \/ CopyTools
    \/ CopyToolsCheck
    \/ Customize
    \/ CustomizeCheck
    \/ RebuildPoll
    \/ RebuildWork
    \/ RebuildDone
    \/ Convert
    \/ Cleanup
    \/ Complete
    \/ Finally1
    \/ Finally2

\* the controller alone: the handlers of the two buttons, the callbacks of
\* the main loop, and the build threads
NextController ==
    \/ start_build
    \/ stop_build_process
    \/ RunAfter
    \/ BuildThreadStep
    \/ LingeringFinally2

\* the controller with its scheduling: a build thread that can take a step
\* takes it, and the Tk main loop runs the callbacks given to root.after
SpecAppLive ==
    /\ Init
    /\ [][NextController]_vars
    /\ WF_vars(BuildThreadStep)
    /\ WF_vars(LingeringFinally2)
    /\ WF_vars(RunAfter)

NextExtract ==
    \/ extract_iso
    \/ SevenZipStart
    \/ SevenZipRead
    \/ SevenZipPoll
    \/ SevenZipHandle
    \/ SevenZipWait
    \/ MountStart
    \/ DirPoll
    \/ FilePoll
    \/ FileCopy
    \/ CopyDone
    \/ MountFinally
    \/ request_stop

SpecExtract == InitBuilder /\ [][NextExtract]_vars

NextCreate ==
    \/ create_iso
    \/ OscdimgStart
    \/ OscdimgRead
    \/ OscdimgPoll
    \/ OscdimgHandle
    \/ OscdimgWait
    \/ PowershellProbe
    \/ PowershellLaunch
    \/ PowershellRead
    \/ PowershellPoll
    \/ PowershellHandle
    \/ PowershellWait
    \/ BasicStart
    \/ BasicPoll
    \/ BasicWrite
    \/ BasicFinish
    \/ request_stop

SpecCreate == InitBuilder /\ [][NextCreate]_vars

NextConvert ==
    \/ convert_to_vhd
    \/ convert_to_ami
    \/ ConvertPoll
    \/ ConvertStep
    \/ ConvertWrite
    \/ request_stop

SpecConvert == InitBuilder /\ [][NextConvert]_vars

\* one ISOBuilder call, of extract_iso or of create_iso
NextBuilder == NextExtract \/ NextCreate

SpecBuilder == InitBuilder /\ [][NextBuilder]_vars

(***************************************************************************)
(* Properties                                                              *)
(***************************************************************************)
\* the build thread has left the try block: its outcome is reported
JobEnded == outcome # "none" /\ pc \in {"finally1", "finally2", "idle"}

\* the build job is between its start and the report of its outcome
JobRunning == pc \notin {"idle", "finally1", "finally2"}

\* the positions of the build thread in each stage
ExtractPcs == {"begin", "extract_poll", "extract_work", "extract_done"}
CreatePcs == {"rebuild_poll", "rebuild_work", "rebuild_done"}
StagePcs == ExtractPcs \cup CreatePcs \cup
            {"copy_tools", "copy_tools_check", "customize", "customize_check",
             "convert", "cleanup"}

\* the positions of extract_iso inside one of its strategies
ExtractRunning == {"7z_start", "7z_read", "7z_poll", "7z_handle", "7z_wait",
                   "mount_start", "dir_poll", "file_poll", "file_copy",
                   "copy_done", "mount_finally"}

C2_MountPairedWithUnmount ==
    /\ unmounts <= 1
    /\ (mounts = 0 => unmounts = 0)
    /\ (ipc \in {"dir_poll", "file_poll", "file_copy", "copy_done", "mount_finally"}
            => unmounts = 0)
    /\ (call = "extract_iso" /\ ipc = "returned" /\ drive_letter = "E"
            => mounts = 1 /\ unmounts = 1)

\* a cancelled copy (the flag was read before a file or a directory) that
\* has returned False with the image dismounted
C2_Witness ==
    /\ call = "extract_iso" /\ ipc = "returned" /\ ret = "False"
    /\ drive_letter = "E" /\ mounts = 1 /\ unmounts = 1
    /\ stop_at \in {"dir_poll", "file_poll", "file_copy"}
    /\ copied_files >= 1

\* C3: when oscdimg is found and fails (non-zero exit code or an exception),
\* create_iso goes on to the PowerShell strategy instead of returning.
C3_MastererFailureFallsBack ==
    (/\ call = "create_iso" /\ ipc = "returned"
     /\ oscdimg_path = "found"
     /\ proc # "terminated"
     /\ returncode["oscdimg"] # 0)
        => (Len(tiers) >= 2 /\ tiers[2] = "powershell")

\* C4: when oscdimg is found and its subprocess exits with code 0,
\* create_iso returns True and no other strategy is started.
C4_MastererSuccessNoFallback ==
    (call = "create_iso" /\ returncode["oscdimg"] = 0)
        => (ipc = "returned" /\ ret = "True" /\ tiers = <<"oscdimg">>)

\* oscdimg has printed a line and exited with code 0, with no stop request
C4_Witness ==
    /\ call = "create_iso" /\ ipc = "returned"
    /\ oscdimg_path = "found" /\ returncode["oscdimg"] = 0
    /\ lines_read >= 1 /\ ~stop_requested
    /\ ret = "True"

\* C5: with no archiver and no masterer, no stop request and no other error,
\* extraction uses mount-and-copy, creation ends in the raw-archive fallback
\* and returns True, and the build job ends in "Build completed".
C5_NoToolsBuildReachesDone ==
    /\ (call = "extract_iso" /\ seven_zip_path = "None") => Head(tiers) = "mount"
    /\ (/\ call = "create_iso" /\ ipc = "returned" /\ oscdimg_path = "None"
        /\ ~stop_requested
        /\ \A i \in 1..Len(events) : ~events[i].has_progress \/ events[i].progress # 0)
            => (ret = "True" /\ tiers = <<"powershell", "basic">>)
    /\ (JobEnded /\ ~stop_build /\ ~io_error) => outcome = "complete"

\* C6: when the flag is set while an extraction strategy runs, the strategy
\* does at most one more unit of work and returns False with the image
\* dismounted, and a build job stopped during its Extract stage ends at a
\* poll of the flag.
C6_CancelMidExtraction ==
    /\ (call = "extract_iso" => units_after_stop <= 1)
    /\ (call = "extract_iso" /\ ipc = "returned" /\ stop_at \in ExtractRunning)
            => (ret = "False" /\ (drive_letter = "E" => unmounts = 1))
    /\ (JobEnded /\ stop_at_pc \in ExtractPcs /\ ~io_error) => stop_seen

\* C7: a build that ended at a poll of the stop flag is not reported as
\* "Build failed", and not with the message of a failed Extract or Create.
C7_StopIsNotAFailure ==
    stop_seen =>
        /\ outcome # "failed"
        /\ error \notin {"Failed to extract ISO", "Failed to rebuild ISO"}

\* C8: a job in which no other error occurs and whose stop was requested in
\* a stage before Done ends at a poll of the flag, never in "Build completed".
C8_StopLeadsToCancelled ==
    (/\ JobEnded
     /\ stop_at_pc \in StagePcs
     /\ ~io_error)
        => (stop_seen /\ outcome # "complete")

C10_StopIdempotent ==
    /\ stop_calls >= 1 => stop_requested
    /\ (stop_at_pc # "none" /\ JobRunning) => stop_build

\* request_stop was called twice, the second time with the flag set
C10_Witness ==
    /\ stop_calls >= 2 /\ stop_requested
    /\ stop_clicks >= 2 /\ stop_build /\ JobRunning

\* the log holds an event with message m
Logged(m) == \E i \in 1..Len(events) : events[i].msg = m

\* the messages with which a strategy that has no fallback reports a failure
FailureMsgs == {"Error extracting with 7-Zip", "7-Zip extraction failed",
                "Failed to mount ISO using PowerShell",
                "Error extracting with Windows mount",
                "Error creating ISO with oscdimg", "oscdimg failed",
                "Error creating basic ISO archive"}

\* the messages with which the PowerShell strategy reports a failure
PowershellFailureMsgs == {"Error creating ISO with PowerShell",
                          "PowerShell ISO creation failed"}

\* the positions of create_iso inside _create_basic_iso
BasicPcs == {"basic_start", "basic_poll", "basic_write", "basic_finish"}

\* the stage of _build_thread a position belongs to: 1 Extract, 2 Populate,
\* 3 Customize, 4 Create, 5 Convert, 6 Cleanup, 7 Done, 8 the job has ended
Stage(p) ==
    CASE p \in ExtractPcs -> 1
      [] p \in {"copy_tools", "copy_tools_check"} -> 2
      [] p \in {"customize", "customize_check"} -> 3
      [] p \in CreatePcs -> 4
      [] p = "convert" -> 5
      [] p = "cleanup" -> 6
      [] p = "complete" -> 7
      [] OTHER -> 8

\* C11: extract_iso starts the 7-Zip strategy exactly when _find_7zip found
\* 7z.exe and the mount-and-copy strategy otherwise, and starts no second
\* strategy in the same call.
C11_ArchiverIffFound ==
    call = "extract_iso" =>
        /\ seven_zip_path = "found" <=> tiers = <<"7zip">>
        /\ seven_zip_path = "None" <=> tiers = <<"mount">>
        /\ ipc \in {"7z_start", "7z_read", "7z_poll", "7z_handle", "7z_wait"}
                => seven_zip_path = "found"
        /\ ipc \in {"mount_start", "dir_poll", "file_poll", "file_copy",
                    "copy_done", "mount_finally"} => seven_zip_path = "None"

\* 7z.exe was found and its run has ended with exit code 0
C11_Witness ==
    /\ call = "extract_iso" /\ ipc = "returned"
    /\ seven_zip_path = "found" /\ tiers = <<"7zip">>
    /\ returncode["7zip"] = 0 /\ ret = "True"

\* C12: when extract_iso returns False with no stop requested, the
\* mount-and-copy strategy has been tried.
C12_ExtractFailsOnlyWhenExhausted ==
    (call = "extract_iso" /\ ipc = "returned" /\ ret = "False" /\ ~stop_requested)
        => \E i \in 1..Len(tiers) : tiers[i] = "mount"

\* C13: an ISOBuilder call that has ended has returned True or False, and
\* has returned False when a strategy without fallback logged a failure.
C13_FailureIsFalseReturn ==
    (call # "none" /\ ipc = "returned") =>
        /\ ret \in {"True", "False"}
        /\ (\E m \in FailureMsgs : Logged(m)) => ret = "False"

\* the archive could not be written after the PowerShell strategy had
\* failed, and create_iso has returned False
C13_Witness ==
    /\ call = "create_iso" /\ ipc = "returned" /\ ret = "False"
    /\ tiers = <<"powershell", "basic">>
    /\ Logged("Error creating basic ISO archive")
    /\ ~stop_requested

\* C14: once the PowerShell strategy has failed (non-zero exit code or an
\* exception), _create_basic_iso is the strategy that runs, and create_iso
\* returns False only if _create_basic_iso failed or was stopped.
C14_ScriptedFailureFallsBack ==
    (/\ call = "create_iso"
     /\ \/ returncode["powershell"] \notin {-1, 0}
        \/ \E m \in PowershellFailureMsgs : Logged(m))
        => /\ tiers[Len(tiers)] = "basic"
           /\ ipc \in BasicPcs \cup {"returned"}
           /\ ipc = "returned" => ret \in {"True", "False"}
           /\ (ipc = "returned" /\ ret = "True") => Logged("Basic ISO archive created")
           /\ (ipc = "returned" /\ ret = "False")
                => (Logged("Error creating basic ISO archive") \/ stop_requested)

\* the PowerShell process has exited with a non-zero code and the archive
\* written after it has made create_iso return True
C14_Witness ==
    /\ call = "create_iso" /\ ipc = "returned" /\ ret = "True"
    /\ returncode["powershell"] \notin {-1, 0}
    /\ tiers = <<"powershell", "basic">>
    /\ output_file = "archive"

\* C15: when _create_basic_iso has run with no stop requested, it has
\* returned True and a file is at the output path.
C15_RawArchiveAlwaysSucceeds ==
    (/\ call = "create_iso" /\ ipc = "returned"
     /\ tiers[Len(tiers)] = "basic"
     /\ ~stop_requested)
        => (ret = "True" /\ output_file # "absent")

\* C16: after create_iso has returned True a file is at the output path and
\* no archive is left at output path + ".zip".
C16_OneOutputFile ==
    (call = "create_iso" /\ ipc = "returned" /\ ret = "True")
        => (output_file \in {"image", "archive"} /\ zip_file = "absent")

\* C17: within one job the stage of the build thread never goes back and
\* never skips a stage before Done; Populate is entered only when
\* _extract_iso has completed its loop, Convert only when _rebuild_iso has
\* completed its loop.
C17_StagesInOrder ==
    [][jobs' = jobs =>
        /\ Stage(pc') >= Stage(pc)
        /\ (Stage(pc') > Stage(pc) /\ Stage(pc') <= 7) => Stage(pc') = Stage(pc) + 1
        /\ (Stage(pc) = 1 /\ Stage(pc') = 2)
                => (pc = "extract_done" /\ step_i = ExtractSteps /\ outcome = "none")
        /\ (Stage(pc) = 4 /\ Stage(pc') = 5)
                => (pc = "rebuild_done" /\ step_i = total_steps /\ outcome = "none")]_vars

\* a job has gone through every stage and is about to report its success
C17_Witness ==
    /\ pc = "complete" /\ outcome = "none"
    /\ progress_log # <<>> /\ progress_log[Len(progress_log)] = 100

C19_OneJobAtATime ==
    lingering = 0

RECURSIVE ProgressOf(_, _)
ProgressOf(m, evs) ==
    IF evs = <<>> THEN <<>>
    ELSE IF Head(evs).msg = m /\ Head(evs).has_progress
         THEN <<Head(evs).progress>> \o ProgressOf(m, Tail(evs))
         ELSE ProgressOf(m, Tail(evs))

\* the copied-file counts at which line 172 lets a progress event through
ProgressPoints(total) == {k \in 1..total : k % ProgressEvery = 0 \/ k = total}

\* the positions at which a subprocess strategy polls the flag for a line
PollPcs == {"7z_poll", "osc_poll", "ps_poll"}

\* C21: every progress value passed to the callback lies in 0..100.
C21_ProgressInRange ==
    \A i \in 1..Len(events) :
        events[i].has_progress => (events[i].progress >= 0 /\ events[i].progress <= 100)

\* C22: when _create_basic_iso has returned False, no partly written
\* archive is left at output path + ".zip".
C22_NoHalfWrittenArchive ==
    (/\ call = "create_iso" /\ ipc = "returned" /\ ret = "False"
     /\ tiers # <<>> /\ tiers[Len(tiers)] = "basic")
        => zip_file # "partial"

\* C23: when Mount-DiskImage succeeded and gave no drive letter, the image
\* has been dismounted when the strategy returns False.
C23_HalfMountedCleanedUp ==
    (call = "extract_iso" /\ ipc = "returned" /\ mounts = 1 /\ drive_letter = "")
        => (ret = "False" /\ unmounts = 1 /\ ~mounted)

\* C24: a mount-and-copy run with no copy error and no stop has copied as
\* many files as the pre-walk counted, has logged one progress event for
\* every count that is a multiple of 100 or the total, the last one 100, and
\* for 250 files has logged exactly 40, 80, 100.
C24_CopyCountAndCadence ==
    (/\ call = "extract_iso" /\ ipc = "returned" /\ ret = "True"
     /\ tiers = <<"mount">>
     /\ CopyErrors = 0 /\ ~stop_requested)
        => /\ copied_files = total_files
           /\ Len(ProgressOf("Copying files", events))
                    = Cardinality(ProgressPoints(total_files))
           /\ total_files > 0 =>
                ProgressOf("Copying files", events)
                    [Len(ProgressOf("Copying files", events))] = 100
           /\ total_files = 250 =>
                ProgressOf("Copying files", events) = <<40, 80, 100>>

\* the tree of 250 files has been copied with no error and no stop
C24_Witness ==
    /\ call = "extract_iso" /\ ipc = "returned" /\ ret = "True"
    /\ total_files = 250 /\ copied_files = 250
    /\ CopyErrors = 0 /\ ~stop_requested
    /\ unmounts = 1

\* C25: a walk in which the copy of a file raised, with no stop and no other
\* failure, has attempted every file, returns True and has dismounted.
C25_CopyErrorNonFatal ==
    (/\ call = "extract_iso" /\ ipc = "returned"
     /\ CopyErrors >= 1
     /\ ~stop_requested
     /\ ~Logged("Error extracting with Windows mount"))
        => /\ ret = "True"
           /\ copied_files + CopyErrors = total_files
           /\ unmounts = 1

\* the copy of one file raised, another file was copied
C25_Witness ==
    /\ call = "extract_iso" /\ ipc = "returned" /\ ret = "True"
    /\ CopyErrors >= 1 /\ copied_files >= 1
    /\ copied_files + CopyErrors = total_files
    /\ unmounts = 1 /\ ~stop_requested

\* C26: when the dismount fails, the strategy returns True after a
\* completed copy and False otherwise, as it does when the dismount
\* succeeds.
C26_UnmountFailureNotPropagated ==
    (call = "extract_iso" /\ ipc = "returned" /\ unmounts = 1) =>
        /\ ret \in {"True", "False"}
        /\ ret = "True" <=> Logged("ISO extraction completed successfully")

\* the dismount failed after a completed copy and the strategy returned True
C26_Witness ==
    /\ call = "extract_iso" /\ ipc = "returned" /\ ret = "True"
    /\ Logged("Error unmounting ISO") /\ mounted
    /\ copied_files >= 1

\* C27: when zipf.write fails for a file, with no stop requested,
\* _create_basic_iso still returns True with the archive at the output path.
C27_ArchiveErrorSkipped ==
    (/\ call = "create_iso" /\ ipc = "returned"
     /\ tiers # <<>> /\ tiers[Len(tiers)] = "basic"
     /\ ~stop_requested
     /\ zip_file = "partial")
        => (ret = "True" /\ output_file = "archive")

\* C28: when the probe finds New-IsoFile (script_path stays unassigned), the
\* step after the probe logs "Running PowerShell ISO creation" and goes on
\* to the authoring command.
C28_ProbePresentRunsCommand ==
    [][(ipc = "ps_launch" /\ script_path = "unbound")
        => (/\ Len(events') > Len(events)
            /\ events'[Len(events) + 1].msg = "Running PowerShell ISO creation"
            /\ tiers' = tiers)]_vars

\* C29: a fallback tier starts only after an event that follows the choice
\* of the tier: mount-and-copy and the PowerShell strategy not right after
\* the opening message of extract_iso / create_iso, _create_basic_iso after
\* the failure message of the PowerShell strategy.
C29_FallbackIsLogged ==
    /\ ipc = "mount_start" => events[Len(events)].msg # "Extracting ISO"
    /\ ipc = "ps_probe" => events[Len(events)].msg # "Creating ISO from"
    /\ (ipc = "basic_start" /\ ~stop_requested)
            => events[Len(events)].msg \in PowershellFailureMsgs

\* C30: a subprocess strategy that reads the flag set at its poll for a line
\* terminates the subprocess and returns False in that step, logs nothing
\* and starts no other strategy.
C30_StopAtLineEndsStrategy ==
    [][(ipc \in PollPcs /\ stop_requested /\ ipc' # ipc)
        => (/\ proc' = "terminated"
            /\ ipc' = "returned" /\ ret' = "False"
            /\ events' = events
            /\ tiers' = tiers)]_vars

\* the PowerShell strategy was stopped at a line: create_iso has returned
\* False and _create_basic_iso was not started
C30_Witness ==
    /\ call = "create_iso" /\ ipc = "returned" /\ ret = "False"
    /\ proc = "terminated" /\ stop_at = "ps_poll"
    /\ tiers = <<"powershell">> /\ zip_file = "absent"

\* the positions at which a strategy handles the line it has read
HandlePcs == {"7z_handle", "osc_handle", "ps_handle"}

\* the events that a step has appended
NewEvents == SubSeq(events', Len(events) + 1, Len(events'))

\* C32: the step that handles an output line appends nothing for a blank
\* line and exactly one event for any other line: a progress event with the
\* parsed value when the line holds a "%" after an integer (and, in the
\* PowerShell strategy, the word "complete" too), a plain message otherwise.
C32_OneEventPerLine ==
    [][(ipc \in HandlePcs /\ ipc' # ipc)
        => IF cur_line.blank THEN NewEvents = <<>>
           ELSE /\ Len(NewEvents) = 1
                /\ NewEvents[1].has_progress
                     = (/\ cur_line.pct /\ cur_line.int
                        /\ (ipc = "ps_handle" => cur_line.complete))
                /\ NewEvents[1].has_progress => NewEvents[1].progress = cur_line.val
                /\ ~NewEvents[1].has_progress => NewEvents[1].msg = "line"]_vars

\* the PowerShell strategy has handled two lines: one gave a progress event,
\* the next a plain message
C32_Witness ==
    /\ call = "create_iso" /\ tiers = <<"powershell">>
    /\ ipc = "ps_read" /\ lines_read = 2
    /\ events[Len(events) - 1].msg = "ISO creation progress"
    /\ events[Len(events) - 1].has_progress
    /\ events[Len(events)].msg = "line"

\* C33: a call of stop_build_process while self.build_thread is not alive
\* leaves self.stop_build as it was.
C33_StopWithoutThreadIsNoOp ==
    [][(stop_clicks' = stop_clicks + 1 /\ build_thread # "alive")
        => stop_build' = stop_build]_vars

\* the stop button was used after the build thread had ended, and the flag
\* is not set
C33_Witness ==
    /\ build_thread = "dead" /\ pc = "idle" /\ lingering = 0
    /\ stop_clicks >= 1 /\ ~stop_build

\* C37: until the archive is complete, _create_basic_iso leaves the file at
\* the output path alone: a False return on a stop or a write error comes
\* with the output file as it was.
C37_OldOutputKeptOnFailure ==
    [][(ipc \in {"basic_start", "basic_poll", "basic_write"})
        => output_file' = output_file]_vars

\* _create_basic_iso has returned False from its archive loop and the file
\* that was at the output path is still there
C37_Witness ==
    /\ call = "create_iso" /\ ipc = "returned" /\ ret = "False"
    /\ tiers # <<>> /\ tiers[Len(tiers)] = "basic"
    /\ zip_file = "partial" /\ copied_files >= 1
    /\ output_file = "old"

\* C38: with no file in the tree, mount-and-copy (mounted, no stop, no
\* makedirs error) returns True and logs no progress event, and
\* _create_basic_iso (archive opened, no unlink or rename error) returns
\* True, logs no progress event and leaves the archive at the output path.
C38_EmptyTree ==
    /\ (/\ call = "extract_iso" /\ ipc = "returned" /\ drive_letter = "E"
        /\ total_files = 0 /\ ~stop_requested
        /\ ~Logged("Error extracting with Windows mount"))
           => (/\ ret = "True"
               /\ \A i \in 1..Len(events) : ~events[i].has_progress)
    /\ (/\ call = "create_iso" /\ ipc = "returned"
        /\ tiers # <<>> /\ tiers[Len(tiers)] = "basic"
        /\ total_files = 0 /\ zip_file # "complete"
        /\ Logged("Creating archive of files")
        /\ ~Logged("Error creating basic ISO archive"))
           => (/\ ret = "True" /\ output_file = "archive"
               /\ ProgressOf("Archiving", events) = <<>>)

\* mount-and-copy has walked a tree of two directories without a file
C38_Witness ==
    /\ call = "extract_iso" /\ ipc = "returned" /\ ret = "True"
    /\ tree = <<0, 0>> /\ total_files = 0 /\ copied_files = 0
    /\ unmounts = 1

\* C39: in mount-and-copy the counter stays within the pre-walk total and
\* no progress value of the copy loop exceeds 100; once a copy has failed
\* the counter stays below the total and no event carries 100.
C39_CounterCountsCopiesOnly ==
    (call = "extract_iso" /\ tiers = <<"mount">>)
        => /\ copied_files <= total_files
           /\ \A i \in 1..Len(events) :
                events[i].msg = "Copying files" => events[i].progress <= 100
           /\ CopyErrors >= 1
                => /\ copied_files < total_files
                   /\ \A i \in 1..Len(events) :
                        events[i].msg = "Copying files" => events[i].progress < 100

\* one of 250 files failed to copy: the strategy has returned True and the
\* progress events stop at 80
C39_Witness ==
    /\ call = "extract_iso" /\ ipc = "returned" /\ ret = "True"
    /\ total_files = 250 /\ CopyErrors = 1 /\ copied_files = 249
    /\ ProgressOf("Copying files", events) = <<40, 80>>


\* C34: start_build leaves the flag unset, and within a job the flag is set
\* only by a stop requested since the job was started.
C34_JobStartsWithFlagUnset ==
    /\ stop_build => stop_clicks >= 1
    /\ (build_thread = "alive" /\ stop_clicks = 0) => ~stop_build

\* a second job runs past its first poll with the flag unset, although the
\* flag was still set by a stop of the first job when start_build ran
C34_Witness ==
    /\ jobs = 2 /\ stale_stop /\ stop_clicks = 0 /\ ~stop_build
    /\ build_thread = "alive" /\ pc = "extract_work"

\* C35: every build thread ends, and after a build the build button
\* becomes enabled and the stop button disabled again.
C35_BuildEndsAndControlsReset ==
    /\ (build_thread = "alive") ~> (build_thread = "dead")
    /\ (build_button = "disabled") ~> (build_button = "normal")
    /\ (stop_button = "normal") ~> (stop_button = "disabled")

\* a build stopped by the user has ended, its callbacks have run, and the
\* controls are back as before the build
C35_Witness ==
    /\ build_thread = "dead" /\ pc = "idle" /\ outcome = "failed" /\ stop_seen
    /\ after_queue = <<>>
    /\ build_button = "normal" /\ stop_button = "disabled"

\* the places of argument a in the command c
ArgPlaces(a, c) == {i \in 1..Len(c) : c[i] = a}

\* C31: the oscdimg command holds -m, -o, -u2 and the -l label, and ends
\* with the source directory and the output path; it has at most one -b,
\* followed by etfsboot.com when that file exists and by efisys.bin when
\* only that one exists; -e and -u1 are there exactly when the boot file
\* chosen is efisys.bin.
C31_MastererCommand ==
    cmd # <<>>
        => /\ \A a \in {"-m", "-o", "-u2", "-l volume_label"} : ArgPlaces(a, cmd) # {}
           /\ SubSeq(cmd, Len(cmd) - 1, Len(cmd)) = <<"source_dir", "output_iso">>
           /\ Cardinality(ArgPlaces("-b", cmd)) <= 1
           /\ ArgPlaces("-b", cmd) # {} <=> boot_files # {}
           /\ \A i \in ArgPlaces("-b", cmd) :
                cmd[i + 1] = IF "etfsboot.com" \in boot_files
                             THEN "etfsboot.com" ELSE "efisys.bin"
           /\ (ArgPlaces("-e", cmd) # {} /\ ArgPlaces("-u1", cmd) # {})
                <=> boot_files = {"efisys.bin"}
           /\ ArgPlaces("-e", cmd) # {} <=> ArgPlaces("-u1", cmd) # {}

\* both boot files exist and oscdimg was started with etfsboot.com alone
C31_Witness ==
    /\ call = "create_iso" /\ proc = "running"
    /\ boot_files = {"etfsboot.com", "efisys.bin"}
    /\ cmd = <<"oscdimg.exe", "-m", "-o", "-u2", "-l volume_label",
               "-b", "etfsboot.com", "source_dir", "output_iso">>

\* the methods that convert an image
ConvertMethods == {"convert_to_vhd", "convert_to_ami"}

\* C36: when convert_to_vhd or convert_to_ami has ended, the file at the
\* output path was created or modified exactly when True was returned.
C36_ConvertedIffTrue ==
    (call \in ConvertMethods /\ ipc = "returned")
        => (ret = "True" <=> converted_file \in {"written", "truncated"})

\* C36, the stop: a conversion that returns False has left the output path
\* as it was.
C36_StopLeavesOutputAlone ==
    (call \in ConvertMethods /\ ret = "False") => converted_file \in {"absent", "old"}

\* C36, the progress: the values reported are the first of 0, 20, 40, 60, 80.
C36_ConvertProgress ==
    call \in ConvertMethods
        => /\ Len(ProgressOf("conversion step", events)) = conv_i
           /\ \A k \in 1..conv_i :
                ProgressOf("conversion step", events)[k] = 20 * (k - 1)

=============================================================================
